---- MODULE Spec2Model ----
(***************************************************************************)
(* Model of the invoicegen core (core/models.py, core/google.py,           *)
(* core/admin.py, core/forms.py,                                           *)
(* core/management/commands/regenerate_pdfs.py).                           *)
(*                                                                         *)
(*  - Spec       : the document lifecycle of one Invoice row together with *)
(*                 the media storage (local blobs) and the Drive account   *)
(*                 (remote objects).                                       *)
(*  - SpecSync   : the same lifecycle without clear_drive_file and without *)
(*                 descriptors set by hand (renders, edits and syncs).     *)
(*  - SpecMoney  : the derived totals of an invoice (parts_subtotal,       *)
(*                 labour_subtotal, gct, total) over bounded item lists.   *)
(*  - SpecFormat : the formatted total of a proforma invoice and the total  *)
(*                 column of the admin list.                               *)
(*  - SpecNames  : the lifecycle of SpecSync for any primary key.          *)
(*  - SpecBatch  : regenerate_pdfs over a table of several invoices.       *)
(*  - SpecSchedule : the methods of WhatsAppFollowUp on any stored profile.*)
(*  - SpecFollowUp : a profile from its enrollment on (edits, sends).      *)
(*  - SpecSettings : WhatsAppSettings.load() run step by step by several   *)
(*                 processes, and the settings form.                       *)
(*  - SpecGlobal : the settings form, an enrollment and sends.             *)
(*  - SpecRace   : several syncs of one invoice, interleaved.              *)
(*  - SpecWrites : stores and Drive marks whose writes may fail.           *)
(*                                                                         *)
(* Decimal values are integers counting units of 0.00001 (1.00 = 100000),  *)
(* so that the product of a sum of thousandths with GCT_RATE is exact, as  *)
(* it is with decimal.Decimal.                                             *)
(***************************************************************************)
EXTENDS Integers, Sequences, FiniteSets, TLC

VARIABLES invoice, storage, drive, last, items, money,
          proforma, display,
          settings, client, profile, today, flast,
          table, report,
          loaders, syncers

vars == <<invoice, storage, drive, last, items, money, proforma, display,
          settings, client, profile, today, flast, table, report,
          loaders, syncers>>
docVars == <<invoice, storage, drive, last>>
moneyVars == <<items, money>>
fmtVars == <<proforma, display>>
fuVars == <<settings, client, profile, today, flast>>
batchVars == <<table, report>>
procVars == <<loaders, syncers>>

-----------------------------------------------------------------------------
(* Bounds *)

\* distinct byte strings the renderer can produce for the invoice
MaxContent == 2
\* file ids the Drive account can hand out
MaxDriveId == 2
\* blobs the media storage can hold
MaxBlobs == 2
\* line items per invoice
MaxItems == 2
\* primary keys an invoice may have
MaxPk == 2
\* invoices in the table the batch command sweeps
MaxInvoices == 2
\* requests that may be in progress at the same time
MaxProcs == 2

Contents == 1..MaxContent
DriveIds == {"drive-" \o ToString(n) : n \in 1..MaxDriveId}

-----------------------------------------------------------------------------
(* Values *)

\* Python None where a str is expected (web_view_link: str | None)
PyNone == "<None>"
\* NULL in a DateTimeField
NullTime == 0
\* a reading of timezone.now(): the value is stored and never read back, so
\* one non-null reading stands for all of them
Now == 1
GENERAL == "GENERAL"
PROFORMA == "PROFORMA"
Types == {GENERAL, PROFORMA}
ViewLinks == {PyNone, "https://drive/view"}
DownloadLinks == {PyNone, "https://drive/download"}

\* Python truthiness of a str / FieldFile name
Truthy(s) == s # "" /\ s # PyNone

\* x or ""
OrEmpty(s) == IF Truthy(s) THEN s ELSE ""

-----------------------------------------------------------------------------
(* Media storage (the FileField's storage backend) *)

\* FileField(upload_to='invoices/')
upload_to(filename) == "invoices/" \o filename

StoredNames(st) == {b.name : b \in st}

AltName(name, n) == IF n = 0 THEN name ELSE name \o "~" \o ToString(n)

\* Storage.get_available_name: the name itself when free, otherwise an
\* alternative name that is free.
FreeAlts(st, name) ==
    {n \in 0..Cardinality(st) : AltName(name, n) \notin StoredNames(st)}

get_available_name(st, name) ==
    AltName(name, CHOOSE n \in FreeAlts(st, name) : \A m \in FreeAlts(st, name) : n <= m)

\* FieldFile.delete(save=False): removes the blob from storage and clears the
\* in-memory name; d is [invoice, storage].
FieldFile_delete(d) ==
    IF ~Truthy(d.invoice.pdf_file) THEN d
    ELSE [invoice |-> [d.invoice EXCEPT !.pdf_file = ""],
          storage |-> {b \in d.storage : b.name # d.invoice.pdf_file}]

\* FieldFile.save(name, content, save=True): writes the blob under an
\* available name, sets the field and saves the row.
FieldFile_save(d, filename, content) ==
    LET name == get_available_name(d.storage, upload_to(filename))
    IN [invoice |-> [d.invoice EXCEPT !.pdf_file = name],
        storage |-> d.storage \cup {[name |-> name, bytes |-> content]}]

-----------------------------------------------------------------------------
(* Invoice: document methods *)

\* an outcome of the external renderer: [raised, bytes]
RenderOutcomes ==
    {[raised |-> "", bytes |-> c] : c \in Contents}
    \cup {[raised |-> "RuntimeError:playwright-missing", bytes |-> 0],
          [raised |-> "RuntimeError:render-failed", bytes |-> 0]}

\* Invoice._render_pdf: returns the bytes or raises RuntimeError
_render_pdf(template_name, outcome) == outcome

\* result of a method: the document state d, what was raised, and how many
\* times the renderer and _store_pdf were invoked
Result(d, raised, renders, stores, content) ==
    [d |-> d, raised |-> raised, renders |-> renders, stores |-> stores,
     content |-> content]

\* _store_pdf writing the new blob although a copy exists and overwrite is off
_store_pdf_always_saves(d, filename, pdf_content, overwrite) ==
    LET d1 == IF overwrite /\ Truthy(d.invoice.pdf_file)
              THEN FieldFile_delete(d) ELSE d
    IN  FieldFile_save(d1, filename, pdf_content)

\* _store_pdf writing the new blob without deleting the previous one
_store_pdf_no_delete(d, filename, pdf_content, overwrite) ==
    IF ~Truthy(d.invoice.pdf_file) \/ overwrite
    THEN FieldFile_save(d, filename, pdf_content)
    ELSE d

\* Invoice._store_pdf
_store_pdf(d, filename, pdf_content, overwrite) ==
    LET d1 == IF overwrite /\ Truthy(d.invoice.pdf_file)
              THEN FieldFile_delete(d) ELSE d
    IN  IF ~Truthy(d1.invoice.pdf_file) \/ overwrite
        THEN FieldFile_save(d1, filename, pdf_content)
        ELSE d1

pdf_name(pk, suffix) == "invoice-" \o ToString(pk) \o "-" \o suffix \o ".pdf"

\* generate_general_pdf swallowing a rendering error and storing empty bytes
generate_general_pdf_swallows(d, overwrite, store_local, outcome) ==
    LET filename == pdf_name(d.invoice.pk, "general")
        r == _render_pdf("invoices/detail_pdf.html", outcome)
    IN  IF store_local
        THEN Result(_store_pdf(d, filename, r.bytes, overwrite), "", 1, 1, r.bytes)
        ELSE Result(d, "", 1, 0, r.bytes)

\* Invoice.generate_general_pdf
generate_general_pdf(d, overwrite, store_local, outcome) ==
    LET filename == pdf_name(d.invoice.pk, "general")
        r == _render_pdf("invoices/detail_pdf.html", outcome)
    IN  IF r.raised # "" THEN Result(d, r.raised, 1, 0, 0)
        ELSE IF store_local
             THEN Result(_store_pdf(d, filename, r.bytes, overwrite), "", 1, 1, r.bytes)
             ELSE Result(d, "", 1, 0, r.bytes)

\* generate_proforma_pdf naming the document as the general one is named
generate_proforma_pdf_general_name(d, overwrite, store_local, outcome) ==
    LET filename == pdf_name(d.invoice.pk, "general")
        r == _render_pdf("invoices/detail_pdf_proforma.html", outcome)
    IN  IF r.raised # "" THEN Result(d, r.raised, 1, 0, 0)
        ELSE IF store_local
             THEN Result(_store_pdf(d, filename, r.bytes, overwrite), "", 1, 1, r.bytes)
             ELSE Result(d, "", 1, 0, r.bytes)

\* Invoice.generate_proforma_pdf
generate_proforma_pdf(d, overwrite, store_local, outcome) ==
    LET filename == pdf_name(d.invoice.pk, "proforma")
        r == _render_pdf("invoices/detail_pdf_proforma.html", outcome)
    IN  IF r.raised # "" THEN Result(d, r.raised, 1, 0, 0)
        ELSE IF store_local
             THEN Result(_store_pdf(d, filename, r.bytes, overwrite), "", 1, 1, r.bytes)
             ELSE Result(d, "", 1, 0, r.bytes)

\* Invoice.pdf_filename
pdf_filename(inv) ==
    LET suffix == IF inv.invoice_type = GENERAL THEN "general" ELSE "proforma"
    IN  pdf_name(inv.pk, suffix)

\* Invoice.generate_pdf_bytes: dispatches on the invoice type
generate_pdf_bytes(d, overwrite, store_local, outcome) ==
    IF d.invoice.invoice_type = GENERAL
    THEN generate_general_pdf(d, overwrite, store_local, outcome)
    ELSE generate_proforma_pdf(d, overwrite, store_local, outcome)

\* mark_drive_file keeping the local copy whatever clear_local says
mark_drive_file_keeps_local(d, file_id, web_view_link, download_link, clear_local, now) ==
    [d EXCEPT !.invoice.drive_file_id = file_id,
              !.invoice.drive_web_view_link = OrEmpty(web_view_link),
              !.invoice.drive_download_link = OrEmpty(download_link),
              !.invoice.drive_synced_at = now]

\* Invoice.mark_drive_file
mark_drive_file(d, file_id, web_view_link, download_link, clear_local, now) ==
    LET d1 == IF clear_local /\ Truthy(d.invoice.pdf_file)
              THEN FieldFile_delete(d) ELSE d
    IN  [d1 EXCEPT !.invoice.drive_file_id = file_id,
                   !.invoice.drive_web_view_link = OrEmpty(web_view_link),
                   !.invoice.drive_download_link = OrEmpty(download_link),
                   !.invoice.drive_synced_at = now]

\* clear_drive_file dropping the local copy as well
clear_drive_file_drops_local(d) ==
    LET d1 == FieldFile_delete(d)
    IN  [d1 EXCEPT !.invoice.drive_file_id = "",
                   !.invoice.drive_web_view_link = "",
                   !.invoice.drive_download_link = "",
                   !.invoice.drive_synced_at = NullTime]

\* Invoice.clear_drive_file
clear_drive_file(d) ==
    [d EXCEPT !.invoice.drive_file_id = "",
              !.invoice.drive_web_view_link = "",
              !.invoice.drive_download_link = "",
              !.invoice.drive_synced_at = NullTime]

\* Invoice.has_drive_file
has_drive_file(inv) == Truthy(inv.drive_file_id)

\* InvoiceForm (a ModelForm over the descriptive fields): saving it may change
\* invoice_type and never touches the document fields.
InvoiceForm_save(d, invoice_type) ==
    [d EXCEPT !.invoice.invoice_type = invoice_type]

-----------------------------------------------------------------------------
(* core/google.py: upload to Drive *)

\* what the Drive side does with one upload: fails ("" when it does not),
\* and on success the id a create hands out and the links in the response
UploadOutcomes ==
    {[fails |-> f, new_id |-> "", view |-> PyNone, download |-> PyNone] :
        f \in {"GoogleConfigurationError", "HttpError"}}
    \cup {[fails |-> "", new_id |-> i, view |-> v, download |-> w] :
            i \in DriveIds, v \in ViewLinks, w \in DownloadLinks}

NoFile == [id |-> "", webViewLink |-> PyNone, webContentLink |-> PyNone]

UploadResult(drv, raised, remote_calls, creates, file) ==
    [drive |-> drv, raised |-> raised, remote_calls |-> remote_calls,
     creates |-> creates, file |-> file]

\* upload_invoice_pdf issuing the request a second time when it fails
upload_invoice_pdf_retries(inv, drv, filename, content, o) ==
    LET file_id == inv.drive_file_id
    IN  IF o.fails = "GoogleConfigurationError"
        THEN UploadResult(drv, o.fails, 0, 0, NoFile)
        ELSE IF Truthy(file_id)
        THEN IF o.fails # "" \/ file_id \notin drv
             THEN UploadResult(drv, "HttpError", 2, 0, NoFile)
             ELSE UploadResult(drv, "", 1, 0,
                    [id |-> file_id, webViewLink |-> o.view,
                     webContentLink |-> o.download])
        ELSE IF o.fails # ""
             THEN UploadResult(drv, "HttpError", 2, 0, NoFile)
             ELSE UploadResult(drv \cup {o.new_id}, "", 1, 1,
                    [id |-> o.new_id, webViewLink |-> o.view,
                     webContentLink |-> o.download])

\* upload_invoice_pdf creating a new object whatever the invoice's file id
upload_invoice_pdf_always_creates(inv, drv, filename, content, o) ==
    IF o.fails # ""
    THEN UploadResult(drv, o.fails, IF o.fails = "HttpError" THEN 1 ELSE 0, 0, NoFile)
    ELSE UploadResult(drv \cup {o.new_id}, "", 1, 1,
            [id |-> o.new_id, webViewLink |-> o.view,
             webContentLink |-> o.download])

\* upload_invoice_pdf(account, invoice, filename, content): builds the service
\* (which raises when the client library or the credentials are missing), then
\* issues one files().update on the invoice's drive_file_id when it has one
\* and one files().create otherwise.  An update of an id the account no
\* longer holds is answered with an HttpError.
upload_invoice_pdf(inv, drv, filename, content, o) ==
    LET file_id == inv.drive_file_id
    IN  IF o.fails = "GoogleConfigurationError"
        THEN UploadResult(drv, o.fails, 0, 0, NoFile)
        ELSE IF Truthy(file_id)
        THEN IF o.fails # "" \/ file_id \notin drv
             THEN UploadResult(drv, "HttpError", 1, 0, NoFile)
             ELSE UploadResult(drv, "", 1, 0,
                    [id |-> file_id, webViewLink |-> o.view,
                     webContentLink |-> o.download])
        ELSE IF o.fails # ""
             THEN UploadResult(drv, "HttpError", 1, 0, NoFile)
             ELSE UploadResult(drv \cup {o.new_id}, "", 1, 1,
                    [id |-> o.new_id, webViewLink |-> o.view,
                     webContentLink |-> o.download])

\* a create hands out an id the account does not hold yet
UploadPossible(inv, drv, o) ==
    (o.fails = "" /\ ~Truthy(inv.drive_file_id)) => o.new_id \notin drv

-----------------------------------------------------------------------------
(* Handlers *)

HandlerResult(d, drv, raised, renders, stores, remote_calls, creates, file) ==
    [d |-> d, drive |-> drv, raised |-> raised, renders |-> renders,
     stores |-> stores, remote_calls |-> remote_calls, creates |-> creates,
     file |-> file]

\* The sync handler, after the upload u of the rendering g: the returned
\* descriptor is recorded only when the upload has returned.
sync_uploaded(g, u, now) ==
    IF u.raised # ""
    THEN HandlerResult(g.d, u.drive, u.raised, g.renders, g.stores,
                       u.remote_calls, u.creates, NoFile)
    ELSE HandlerResult(
            mark_drive_file(g.d, u.file.id, u.file.webViewLink,
                            u.file.webContentLink, TRUE, now),
            u.drive, "", g.renders, g.stores, u.remote_calls, u.creates, u.file)

\* The sync handler, after the rendering g: upload under the invoice's
\* filename unless the rendering raised.
sync_rendered(g, drv, o, now) ==
    IF g.raised # ""
    THEN HandlerResult(g.d, drv, g.raised, g.renders, g.stores, 0, 0, NoFile)
    ELSE sync_uploaded(g,
            upload_invoice_pdf(g.d.invoice, drv, pdf_filename(g.d.invoice), g.content, o),
            now)

\* The sync handler: render without storing, upload, record the descriptor.
sync_invoice(d, drv, outcome, o, now) ==
    sync_rendered(generate_pdf_bytes(d, FALSE, FALSE, outcome), drv, o, now)

\* the loop body counting an invoice whose generation raised as regenerated
handle_invoice_counts_failures(d, dry_run, outcome) ==
    IF dry_run
    THEN [d |-> d, regenerated |-> 1, renders |-> 0, stores |-> 0]
    ELSE LET g == IF d.invoice.invoice_type = GENERAL
                  THEN generate_general_pdf(d, TRUE, TRUE, outcome)
                  ELSE generate_proforma_pdf(d, TRUE, TRUE, outcome)
         IN  [d |-> g.d, regenerated |-> 1,
              renders |-> g.renders, stores |-> g.stores]

\* the loop body regenerating the document in a dry run as well
handle_invoice_dry_run_writes(d, dry_run, outcome) ==
    LET g == IF d.invoice.invoice_type = GENERAL
             THEN generate_general_pdf(d, TRUE, TRUE, outcome)
             ELSE generate_proforma_pdf(d, TRUE, TRUE, outcome)
    IN  [d |-> g.d, regenerated |-> IF dry_run \/ g.raised = "" THEN 1 ELSE 0,
         renders |-> g.renders, stores |-> g.stores]

\* regenerate_pdfs Command.handle, the body of the loop for one invoice:
\* [d, regenerated, renders, stores]; an exception of the generation is caught
\* and reported.
handle_invoice(d, dry_run, outcome) ==
    IF dry_run
    THEN [d |-> d, regenerated |-> 1, renders |-> 0, stores |-> 0]
    ELSE LET g == IF d.invoice.invoice_type = GENERAL
                  THEN generate_general_pdf(d, TRUE, TRUE, outcome)
                  ELSE generate_proforma_pdf(d, TRUE, TRUE, outcome)
         IN  [d |-> g.d, regenerated |-> IF g.raised = "" THEN 1 ELSE 0,
              renders |-> g.renders, stores |-> g.stores]

\* regenerate_pdfs Command.handle from row i of Invoice.objects.all() on, the
\* renderer answering outcomes[j] for row j: the table and the storage it
\* leaves, the two counters of its report, the "[DRY RUN] Would regenerate"
\* lines written, the rows visited and the calls made
RECURSIVE handle(_, _, _, _, _)
handle(tbl, st, dry_run, outcomes, i) ==
    IF i > Len(tbl)
    THEN [table |-> tbl, storage |-> st, processed |-> 0, regenerated |-> 0,
          would |-> 0, visited |-> <<>>, renders |-> 0, stores |-> 0]
    ELSE LET h == handle_invoice([invoice |-> tbl[i], storage |-> st],
                                 dry_run, outcomes[i])
             r == handle([tbl EXCEPT ![i] = h.d.invoice], h.d.storage,
                         dry_run, outcomes, i + 1)
         IN  [table |-> r.table, storage |-> r.storage,
              processed |-> 1 + r.processed,
              regenerated |-> h.regenerated + r.regenerated,
              would |-> (IF dry_run THEN 1 ELSE 0) + r.would,
              visited |-> <<tbl[i].pk>> \o r.visited,
              renders |-> h.renders + r.renders,
              stores |-> h.stores + r.stores]

-----------------------------------------------------------------------------
(* State *)

Doc == [invoice |-> invoice, storage |-> storage]

\* what the last operation was called with, what it found (had_local: a local
\* pdf_file, had_remote: a drive_file_id) and what it did
NoLast ==
    [op |-> "none", had_local |-> FALSE, had_remote |-> FALSE,
     render |-> "", raised |-> "", renders |-> 0, stores |-> 0,
     remote_calls |-> 0, creates |-> 0, overwrite |-> FALSE,
     store_local |-> FALSE, clear_local |-> FALSE, dry_run |-> FALSE,
     content |-> 0, file_id |-> "", web_view_link |-> PyNone,
     download_link |-> PyNone, now |-> NullTime,
     processed |-> 0, regenerated |-> 0]

Called(op) ==
    [NoLast EXCEPT !.op = op,
                   !.had_local = Truthy(invoice.pdf_file),
                   !.had_remote = Truthy(invoice.drive_file_id)]

NewInvoice(pk, t) ==
    [pk |-> pk, invoice_type |-> t, pdf_file |-> "", drive_file_id |-> "",
     drive_web_view_link |-> "", drive_download_link |-> "",
     drive_synced_at |-> NullTime]

NoMoney ==
    [computed |-> FALSE, parts_subtotal |-> 0, labour_subtotal |-> 0,
     gct |-> 0, total |-> 0]

\* Decimal | None: <<>> is None, <<v>> the value v
NoPrice == <<>>

\* str as the sequence of its characters
JMD == <<"J", "M", "D">>

\* the fields of the invoice row that proforma_total_formatted and the admin
\* list read, as a new invoice has them: no price, currency "JMD"
NewProforma(t) ==
    [invoice_type |-> t, proforma_price |-> NoPrice, proforma_currency |-> JMD]

\* what the last reading of the formatted total returned
NoDisplay == [read |-> FALSE, proforma_total_formatted |-> "", total_display |-> ""]

\* nothing of the formatted total is read
FormatIdle ==
    /\ proforma = NewProforma(GENERAL)
    /\ display = NoDisplay

\* date.toordinal(): the days from 0001-01-01 (day 1) in the proleptic
\* Gregorian calendar
IsLeap(y) == y % 4 = 0 /\ (y % 100 # 0 \/ y % 400 = 0)

DaysInMonth(y, m) ==
    IF m = 2 THEN (IF IsLeap(y) THEN 29 ELSE 28)
    ELSE IF m \in {4, 6, 9, 11} THEN 30 ELSE 31

RECURSIVE DaysBeforeMonth(_, _)
DaysBeforeMonth(y, m) ==
    IF m = 1 THEN 0 ELSE DaysBeforeMonth(y, m - 1) + DaysInMonth(y, m - 1)

DaysBeforeYear(y) ==
    (y - 1) * 365 + (y - 1) \div 4 - (y - 1) \div 100 + (y - 1) \div 400

Ordinal(y, m, d) == DaysBeforeYear(y) + DaysBeforeMonth(y, m) + d

\* NULL in a DateField (ordinals start at 1)
NullDate == 0
\* NULL in an integer field
NullInt == -1
\* the day the model starts on: 2024-06-01
FirstDay == Ordinal(2024, 6, 1)

\* a WhatsAppFollowUp instance that is not stored (pk 0): the field defaults
NoProfile ==
    [pk |-> 0, is_active |-> TRUE, last_service_date |-> NullDate,
     follow_up_days_override |-> NullInt, next_follow_up_date |-> NullDate,
     last_sent_at |-> NullTime, last_error |-> ""]

NoClient == [name |-> "", email |-> "", phone |-> ""]

\* a message context without any value
NoContext ==
    [client_name |-> "", client_email |-> "", client_phone |-> "",
     business_name |-> "", last_service_date |-> "", days_since_service |-> "",
     next_follow_up_date |-> "", follow_up_days |-> ""]

\* what the last follow-up operation was called on (before: the profile as it
\* was, localdate: the day it ran, submitted: the number a form was given) and
\* what it returned
NoFLast ==
    [op |-> "none", before |-> NoProfile, localdate |-> NullDate,
     result |-> NullInt, message |-> "", context |-> NoContext, error |-> "",
     submitted |-> NullInt]

\* no follow-up profile, no settings row
FollowUpIdle ==
    /\ settings = {}
    /\ client = NoClient
    /\ profile = NoProfile
    /\ today = FirstDay
    /\ flast = NoFLast

\* what the last run of regenerate_pdfs was given (the answer of the renderer
\* for each row), reported and did
NoReport ==
    [ran |-> FALSE, dry_run |-> FALSE, outcomes |-> <<>>, processed |-> 0,
     regenerated |-> 0, would |-> 0, visited |-> <<>>, renders |-> 0,
     stores |-> 0]

\* no run of the batch command over a table of several invoices
BatchIdle ==
    /\ table = <<>>
    /\ report = NoReport

\* the processes that may run a request at the same time
Procs == 1..MaxProcs

\* settings=None
NoSettings == [singleton_id |-> 0, global_follow_up_days |-> 0, business_name |-> ""]

\* a process that is not inside WhatsAppSettings.load()
IdleLoader ==
    [pc |-> "idle", obj |-> NoSettings, created |-> FALSE, retried |-> FALSE]

\* a process that is not syncing the invoice: the invoice instance it holds,
\* the rendered bytes and the file Drive answered with
IdleSyncer ==
    [pc |-> "idle", inv |-> NewInvoice(0, GENERAL), content |-> 0,
     file |-> NoFile, raised |-> ""]

\* no request is in progress
ProcIdle ==
    /\ loaders = [p \in Procs |-> IdleLoader]
    /\ syncers = [p \in Procs |-> IdleSyncer]

\* a freshly created invoice (the first row of its table) of either type: no
\* document, nothing on Drive
Init ==
    /\ ProcIdle
    /\ \E t \in Types : invoice = NewInvoice(1, t)
    /\ storage = {}
    /\ drive = {}
    /\ last = NoLast
    /\ items = <<>>
    /\ money = NoMoney
    /\ FormatIdle
    /\ FollowUpIdle
    /\ BatchIdle

-----------------------------------------------------------------------------
(* Operations *)

\* a caller renders the invoice through generate_pdf_bytes
GeneratePdfBytes ==
    \E overwrite \in BOOLEAN, store_local \in BOOLEAN, outcome \in RenderOutcomes :
        \E g \in {generate_pdf_bytes(Doc, overwrite, store_local, outcome)} :
            /\ Cardinality(g.d.storage) <= MaxBlobs
            /\ invoice' = g.d.invoice
            /\ storage' = g.d.storage
            /\ last' = [Called("generate_pdf_bytes") EXCEPT
                            !.render = outcome.raised,
                            !.raised = g.raised, !.renders = g.renders,
                            !.stores = g.stores, !.overwrite = overwrite,
                            !.store_local = store_local, !.content = g.content]
            /\ UNCHANGED <<drive, items, money, fmtVars, fuVars, batchVars, procVars>>

\* the regenerate_pdfs command over the table holding this invoice
RegeneratePdfs ==
    \E dry_run \in BOOLEAN, outcome \in RenderOutcomes :
        \E h \in {handle_invoice(Doc, dry_run, outcome)} :
            /\ Cardinality(h.d.storage) <= MaxBlobs
            /\ invoice' = h.d.invoice
            /\ storage' = h.d.storage
            /\ last' = [Called("regenerate_pdfs") EXCEPT
                            !.render = IF dry_run THEN "" ELSE outcome.raised,
                            !.renders = h.renders, !.stores = h.stores,
                            !.dry_run = dry_run, !.overwrite = TRUE,
                            !.store_local = TRUE,
                            !.content = IF h.stores > 0 THEN outcome.bytes ELSE 0,
                            !.processed = 1, !.regenerated = h.regenerated]
            /\ UNCHANGED <<drive, items, money, fmtVars, fuVars, batchVars, procVars>>

\* what Drive may answer to the upload of a sync: nothing is uploaded (and
\* the outcome is immaterial) when the rendering raised
UploadsAfter(outcome) ==
    IF outcome.raised # ""
    THEN {[fails |-> "HttpError", new_id |-> "", view |-> PyNone, download |-> PyNone]}
    ELSE {o \in UploadOutcomes : UploadPossible(invoice, drive, o)}

\* a caller syncs the invoice to Drive
SyncInvoice ==
    \E outcome \in RenderOutcomes :
      \E o \in UploadsAfter(outcome) :
        \E r \in {sync_invoice(Doc, drive, outcome, o, Now)} :
            /\ invoice' = r.d.invoice
            /\ storage' = r.d.storage
            /\ drive' = r.drive
            /\ last' = [Called("sync_invoice") EXCEPT
                            !.render = outcome.raised,
                            !.raised = r.raised, !.renders = r.renders,
                            !.stores = r.stores, !.remote_calls = r.remote_calls,
                            !.creates = r.creates, !.clear_local = TRUE,
                            !.file_id = r.file.id,
                            !.web_view_link = r.file.webViewLink,
                            !.download_link = r.file.webContentLink,
                            !.now = IF r.raised = "" THEN Now ELSE NullTime]
            /\ UNCHANGED <<items, money, fmtVars, fuVars, batchVars, procVars>>

\* a caller records a Drive descriptor on the invoice
MarkDriveFile ==
    \E file_id \in DriveIds, v \in ViewLinks, w \in DownloadLinks,
       clear_local \in BOOLEAN :
        \E d \in {mark_drive_file(Doc, file_id, v, w, clear_local, Now)} :
            /\ invoice' = d.invoice
            /\ storage' = d.storage
            /\ last' = [Called("mark_drive_file") EXCEPT
                            !.clear_local = clear_local, !.file_id = file_id,
                            !.web_view_link = v, !.download_link = w,
                            !.now = Now]
            /\ UNCHANGED <<drive, items, money, fmtVars, fuVars, batchVars, procVars>>

\* a caller disconnects the invoice from Drive
ClearDriveFile ==
    \E d \in {clear_drive_file(Doc)} :
        /\ invoice' = d.invoice
        /\ storage' = d.storage
        /\ last' = Called("clear_drive_file")
        /\ UNCHANGED <<drive, items, money, fmtVars, fuVars, batchVars, procVars>>

\* the invoice is edited through InvoiceForm
EditInvoice ==
    \E t \in Types :
        \E d \in {InvoiceForm_save(Doc, t)} :
            /\ invoice' = d.invoice
            /\ storage' = d.storage
            /\ last' = Called("edit_invoice")
            /\ UNCHANGED <<drive, items, money, fmtVars, fuVars, batchVars, procVars>>

Next ==
    \/ GeneratePdfBytes
    \/ RegeneratePdfs
    \/ SyncInvoice
    \/ MarkDriveFile
    \/ ClearDriveFile
    \/ EditInvoice

Spec == Init /\ [][Next]_vars

\* the invoice is rendered, edited and synced, and its descriptor is never
\* cleared nor set by hand
SyncNext ==
    \/ GeneratePdfBytes
    \/ RegeneratePdfs
    \/ SyncInvoice
    \/ EditInvoice

SpecSync == Init /\ [][SyncNext]_vars

\* the same lifecycle for an invoice with any primary key
Pks == 1..MaxPk

NameInit ==
    /\ ProcIdle
    /\ \E pk \in Pks, t \in Types : invoice = NewInvoice(pk, t)
    /\ storage = {}
    /\ drive = {}
    /\ last = NoLast
    /\ items = <<>>
    /\ money = NoMoney
    /\ FormatIdle
    /\ FollowUpIdle
    /\ BatchIdle

SpecNames == NameInit /\ [][SyncNext]_vars

-----------------------------------------------------------------------------
(* regenerate_pdfs over a table of several invoices *)

\* the type of row i: GENERAL and PROFORMA invoices alternate
TypeOf(i) == IF i % 2 = 1 THEN GENERAL ELSE PROFORMA

\* an invoice that was synced to Drive and holds no local copy
SyncedInvoice(pk, t) ==
    mark_drive_file([invoice |-> NewInvoice(pk, t), storage |-> {}],
                    "drive-" \o ToString(pk), "https://drive/view", PyNone,
                    TRUE, Now).invoice

\* the answer of the renderer when it is not asked
NotRendered == [raised |-> "", bytes |-> 0]

\* a table of up to MaxInvoices invoices without local copies, of which none,
\* every second one or all are synced to Drive
BatchInit ==
    /\ ProcIdle
    /\ invoice = NewInvoice(1, GENERAL)
    /\ storage = {}
    /\ drive = {}
    /\ last = NoLast
    /\ items = <<>>
    /\ money = NoMoney
    /\ FormatIdle
    /\ FollowUpIdle
    /\ \E n \in 1..MaxInvoices :
      \E synced \in {{}, {i \in 1..n : i % 2 = 0}, 1..n} :
        /\ table = [i \in 1..n |->
                        IF i \in synced THEN SyncedInvoice(i, TypeOf(i))
                        ELSE NewInvoice(i, TypeOf(i))]
    /\ report = NoReport

\* manage.py regenerate_pdfs
RegenerateAll ==
    \E outcomes \in [1..Len(table) -> RenderOutcomes] :
        \E r \in {handle(table, storage, FALSE, outcomes, 1)} :
            /\ table' = r.table
            /\ storage' = r.storage
            /\ report' = [ran |-> TRUE, dry_run |-> FALSE, outcomes |-> outcomes,
                          processed |-> r.processed,
                          regenerated |-> r.regenerated, would |-> r.would,
                          visited |-> r.visited, renders |-> r.renders,
                          stores |-> r.stores]
            /\ UNCHANGED <<invoice, drive, last, moneyVars, fmtVars, fuVars, procVars>>

\* manage.py regenerate_pdfs --dry-run
RegenerateAllDryRun ==
    \E outcomes \in {[i \in 1..Len(table) |-> NotRendered]} :
        \E r \in {handle(table, storage, TRUE, outcomes, 1)} :
            /\ table' = r.table
            /\ storage' = r.storage
            /\ report' = [ran |-> TRUE, dry_run |-> TRUE, outcomes |-> outcomes,
                          processed |-> r.processed,
                          regenerated |-> r.regenerated, would |-> r.would,
                          visited |-> r.visited, renders |-> r.renders,
                          stores |-> r.stores]
            /\ UNCHANGED <<invoice, drive, last, moneyVars, fmtVars, fuVars, procVars>>

BatchNext ==
    \/ RegenerateAll
    \/ RegenerateAllDryRun

SpecBatch == BatchInit /\ [][BatchNext]_vars

-----------------------------------------------------------------------------
(* Invoice: derived totals *)

\* Decimal('0.01') in units of 0.00001
Cent == 1000
\* GCT_RATE = Decimal('0.15'), in hundredths
GCT_RATE == 15

\* costs a line item may carry: 0, 0.004, 0.005, 0.30, 10.005, 20.004
CostValues == {0, 400, 500, 30000, 1000500, 2000400}
LineItems == [labour_cost : CostValues, parts_cost : CostValues]

RECURSIVE ItemLists(_)
ItemLists(n) ==
    IF n = 0 THEN {<<>>}
    ELSE ItemLists(n - 1)
         \cup {Append(l, i) : l \in {m \in ItemLists(n - 1) : Len(m) = n - 1},
                              i \in LineItems}

\* models.Sum over the invoice's items; <<>> stands for the None an
\* aggregate over no rows returns, <<v>> for a sum v
RECURSIVE SumRows(_, _)
SumRows(rows, field) ==
    IF rows = <<>> THEN 0
    ELSE rows[1][field] + SumRows(Tail(rows), field)

Sum(rows, field) == IF rows = <<>> THEN <<>> ELSE <<SumRows(rows, field)>>

\* aggregate(...)['total'] or Decimal('0')
OrZero(agg) == IF agg = <<>> \/ agg = <<0>> THEN 0 ELSE agg[1]

\* quantize rounding a tie to the even cent (ROUND_HALF_EVEN)
quantize_half_even(v) ==
    LET a == IF v >= 0 THEN v ELSE 0 - v
        q == a \div Cent
        r == a % Cent
        m == IF 2 * r > Cent \/ (2 * r = Cent /\ q % 2 = 1) THEN q + 1 ELSE q
    IN  IF v >= 0 THEN m * Cent ELSE 0 - m * Cent

\* Decimal.quantize(Decimal('0.01'), rounding=ROUND_HALF_UP): to the nearest
\* cent, a tie away from zero
quantize(v) ==
    IF v >= 0 THEN ((v + Cent \div 2) \div Cent) * Cent
    ELSE 0 - (((0 - v) + Cent \div 2) \div Cent) * Cent

\* Invoice.parts_subtotal
parts_subtotal(rows) == quantize(OrZero(Sum(rows, "parts_cost")))

\* Invoice.labour_subtotal
labour_subtotal(rows) == quantize(OrZero(Sum(rows, "labour_cost")))

\* Invoice.gct
gct(rows) == quantize((parts_subtotal(rows) * GCT_RATE) \div 100)

\* Invoice.total
total(rows) == quantize(parts_subtotal(rows) + labour_subtotal(rows) + gct(rows))

\* an invoice with any list of line items, whose totals have not been read
MoneyInit ==
    /\ ProcIdle
    /\ invoice = NewInvoice(1, GENERAL)
    /\ storage = {}
    /\ drive = {}
    /\ last = NoLast
    /\ items \in ItemLists(MaxItems)
    /\ money = NoMoney
    /\ FormatIdle
    /\ FollowUpIdle
    /\ BatchIdle

\* the four properties are read (a template or the admin renders them)
ReadTotals ==
    /\ ~money.computed
    /\ money' = [computed |-> TRUE,
                 parts_subtotal |-> parts_subtotal(items),
                 labour_subtotal |-> labour_subtotal(items),
                 gct |-> gct(items),
                 total |-> total(items)]
    /\ UNCHANGED <<docVars, items, fmtVars, fuVars, batchVars, procVars>>

MoneyNext == ReadTotals

SpecMoney == MoneyInit /\ [][MoneyNext]_vars

-----------------------------------------------------------------------------
(* Invoice: the formatted proforma total *)

\* str.strip() on a sequence of characters
RECURSIVE lstrip(_)
lstrip(s) == IF s # <<>> /\ s[1] = " " THEN lstrip(Tail(s)) ELSE s

RECURSIVE rstrip(_)
rstrip(s) ==
    IF s # <<>> /\ s[Len(s)] = " " THEN rstrip(SubSeq(s, 1, Len(s) - 1)) ELSE s

strip(s) == rstrip(lstrip(s))

\* the str of a sequence of characters
RECURSIVE Join(_)
Join(s) == IF s = <<>> THEN "" ELSE s[1] \o Join(Tail(s))

Digits2(n) == IF n < 10 THEN "0" \o ToString(n) ELSE ToString(n)

Digits3(n) == IF n < 100 THEN "0" \o Digits2(n) ELSE ToString(n)

\* the integer part with thousands separators
RECURSIVE Grouped(_)
Grouped(n) ==
    IF n < 1000 THEN ToString(n)
    ELSE Grouped(n \div 1000) \o "," \o Digits3(n % 1000)

\* f"{amount:,.2f}" of an amount that is a whole number of cents
format_2f(amount) ==
    LET cents == (IF amount >= 0 THEN amount ELSE 0 - amount) \div Cent
    IN  (IF amount < 0 THEN "-" ELSE "")
            \o Grouped(cents \div 100) \o "." \o Digits2(cents % 100)

\* Invoice._money
_money(v, currency) ==
    IF v = NoPrice THEN ""
    ELSE LET amount == quantize(v[1])
             cur == strip(currency)
         IN  IF cur # <<>>
             THEN Join(cur) \o " " \o format_2f(amount)
             ELSE "$" \o format_2f(amount)

\* Invoice.proforma_total_formatted
proforma_total_formatted(inv) == _money(inv.proforma_price, inv.proforma_currency)

\* the one-character str U+2014 (an em dash), the placeholder of the admin list
EmDash == "<U+2014>"

\* InvoiceAdmin.total_display
total_display(inv, rows) ==
    IF inv.invoice_type = PROFORMA
    THEN (IF proforma_total_formatted(inv) # ""
          THEN proforma_total_formatted(inv) ELSE EmDash)
    ELSE "$" \o format_2f(total(rows))

\* prices a proforma invoice may carry: none, 0, 0.004, 0.005, 99.995,
\* 999.995, 1234.50
PriceValues == {0, 400, 500, 9999500, 99999500, 123450000}
Prices == {NoPrice} \cup {<<v>> : v \in PriceValues}
\* currencies: blank, a space, "JMD", " USD " and "$"
Currencies == {<<>>, <<" ">>, JMD, <<" ", "U", "S", "D", " ">>, <<"$">>}

\* an invoice of either type with any price and currency, whose formatted
\* total has not been read
FormatInit ==
    /\ ProcIdle
    /\ invoice = NewInvoice(1, GENERAL)
    /\ storage = {}
    /\ drive = {}
    /\ last = NoLast
    /\ items = <<>>
    /\ money = NoMoney
    /\ proforma \in [invoice_type : Types, proforma_price : Prices,
                     proforma_currency : Currencies]
    /\ display = NoDisplay
    /\ FollowUpIdle
    /\ BatchIdle

\* a template reads proforma_total_formatted and the admin list shows the row
ReadFormatted ==
    /\ ~display.read
    /\ display' = [read |-> TRUE,
                   proforma_total_formatted |-> proforma_total_formatted(proforma),
                   total_display |-> total_display(proforma, items)]
    /\ UNCHANGED <<docVars, moneyVars, proforma, fuVars, batchVars, procVars>>

FormatNext == ReadFormatted

SpecFormat == FormatInit /\ [][FormatNext]_vars

-----------------------------------------------------------------------------
(* WhatsAppSettings and WhatsAppFollowUp *)

\* days the clock may advance
MaxDays == 1

\* global_follow_up_days of a settings row created by load()
DefaultFollowUpDays == 90

\* the row get_or_create inserts
DefaultSettings ==
    [singleton_id |-> 1, global_follow_up_days |-> DefaultFollowUpDays,
     business_name |-> ""]

\* WhatsAppSettings.load over the rows of the table: [obj, rows]
load(rows) ==
    IF \E r \in rows : r.singleton_id = 1
    THEN [obj |-> CHOOSE r \in rows : r.singleton_id = 1, rows |-> rows]
    ELSE [obj |-> DefaultSettings, rows |-> rows \cup {DefaultSettings}]

\* settings or WhatsAppSettings.load()
OrLoad(s, rows) ==
    IF s.singleton_id # 0 THEN [obj |-> s, rows |-> rows] ELSE load(rows)

\* follow_up_days taking the override whenever it is not None (0 included)
follow_up_days_zero_override(p, s, rows) ==
    IF p.follow_up_days_override # NullInt
    THEN [value |-> p.follow_up_days_override, rows |-> rows]
    ELSE LET l == OrLoad(s, rows)
         IN  [value |-> l.obj.global_follow_up_days, rows |-> l.rows]

\* WhatsAppFollowUp.follow_up_days: [value, rows]
follow_up_days(p, s, rows) ==
    IF p.follow_up_days_override # NullInt /\ p.follow_up_days_override # 0
    THEN [value |-> p.follow_up_days_override, rows |-> rows]
    ELSE LET l == OrLoad(s, rows)
         IN  [value |-> l.obj.global_follow_up_days, rows |-> l.rows]

\* compute_next_follow_up_date counting from the day after the service
compute_next_follow_up_date_off_by_one(p, s, rows) ==
    IF p.last_service_date = NullDate THEN [value |-> NullDate, rows |-> rows]
    ELSE LET f == follow_up_days(p, s, rows)
         IN  [value |-> p.last_service_date + f.value + 1, rows |-> f.rows]

\* WhatsAppFollowUp.compute_next_follow_up_date: [value, rows]
compute_next_follow_up_date(p, s, rows) ==
    IF p.last_service_date = NullDate THEN [value |-> NullDate, rows |-> rows]
    ELSE LET f == follow_up_days(p, s, rows)
         IN  [value |-> p.last_service_date + f.value, rows |-> f.rows]

\* refresh_schedule keeping a date that is already scheduled
refresh_schedule_keeps_date(p, s, rows) ==
    LET l == OrLoad(s, rows)
        c == compute_next_follow_up_date(p, l.obj, l.rows)
    IN  [profile |-> [p EXCEPT !.next_follow_up_date =
                            IF p.next_follow_up_date # NullDate
                            THEN p.next_follow_up_date ELSE c.value],
         rows |-> c.rows]

\* WhatsAppFollowUp.refresh_schedule(commit=True): [profile, rows]
refresh_schedule(p, s, rows) ==
    LET l == OrLoad(s, rows)
        c == compute_next_follow_up_date(p, l.obj, l.rows)
    IN  [profile |-> [p EXCEPT !.next_follow_up_date = c.value], rows |-> c.rows]

\* register_success rescheduling from the last service date
register_success_from_service(p, s, rows, now, localdate) ==
    LET l == OrLoad(s, rows)
        c == compute_next_follow_up_date(p, l.obj, l.rows)
    IN  [profile |-> [p EXCEPT !.last_sent_at = now, !.last_error = "",
                               !.next_follow_up_date = c.value],
         rows |-> c.rows]

\* WhatsAppFollowUp.register_success: [profile, rows]; now and localdate are
\* the readings of timezone.now() and timezone.localdate()
register_success(p, s, rows, now, localdate) ==
    LET l == OrLoad(s, rows)
        f == follow_up_days(p, l.obj, l.rows)
    IN  [profile |-> [p EXCEPT !.last_sent_at = now, !.last_error = "",
                               !.next_follow_up_date = localdate + f.value],
         rows |-> f.rows]

\* register_failure deactivating the profile
register_failure_deactivates(p, error) ==
    [p EXCEPT !.last_error = error, !.is_active = FALSE]

\* WhatsAppFollowUp.register_failure
register_failure(p, error) == [p EXCEPT !.last_error = error]

\* date.fromordinal: the year, month and day of an ordinal
YearOf(n) ==
    CHOOSE y \in (n \div 366)..(n \div 365 + 1) :
        DaysBeforeYear(y) < n /\ n <= DaysBeforeYear(y + 1)

MonthOf(n) ==
    LET y == YearOf(n)
    IN  CHOOSE m \in 1..12 :
            /\ DaysBeforeYear(y) + DaysBeforeMonth(y, m) < n
            /\ n <= DaysBeforeYear(y) + DaysBeforeMonth(y, m) + DaysInMonth(y, m)

DayOf(n) == n - DaysBeforeYear(YearOf(n)) - DaysBeforeMonth(YearOf(n), MonthOf(n))

MonthNames ==
    <<"January", "February", "March", "April", "May", "June", "July",
      "August", "September", "October", "November", "December">>

\* date.strftime("%B %d, %Y")
strftime(n) ==
    MonthNames[MonthOf(n)] \o " " \o Digits2(DayOf(n)) \o ", " \o ToString(YearOf(n))

\* x or "our team"
OrOurTeam(x) == IF x # "" THEN x ELSE "our team"

\* message_context leaving an empty business name empty
message_context_blank_business(p, c, s, rows, localdate) ==
    LET l == OrLoad(s, rows)
        f == follow_up_days(p, l.obj, l.rows)
    IN  [context |->
            [client_name |-> c.name,
             client_email |-> c.email,
             client_phone |-> c.phone,
             business_name |-> l.obj.business_name,
             last_service_date |->
                IF p.last_service_date # NullDate
                THEN strftime(p.last_service_date) ELSE "",
             days_since_service |->
                IF p.last_service_date # NullDate
                THEN ToString(localdate - p.last_service_date) ELSE "",
             next_follow_up_date |->
                IF p.next_follow_up_date # NullDate
                THEN strftime(p.next_follow_up_date) ELSE "",
             follow_up_days |-> ToString(f.value)],
         rows |-> f.rows]

\* WhatsAppFollowUp.message_context: [context, rows]; c is the client of the
\* profile
message_context(p, c, s, rows, localdate) ==
    LET l == OrLoad(s, rows)
        f == follow_up_days(p, l.obj, l.rows)
    IN  [context |->
            [client_name |-> c.name,
             client_email |-> c.email,
             client_phone |-> c.phone,
             business_name |-> OrOurTeam(l.obj.business_name),
             last_service_date |->
                IF p.last_service_date # NullDate
                THEN strftime(p.last_service_date) ELSE "",
             days_since_service |->
                IF p.last_service_date # NullDate
                THEN ToString(localdate - p.last_service_date) ELSE "",
             next_follow_up_date |->
                IF p.next_follow_up_date # NullDate
                THEN strftime(p.next_follow_up_date) ELSE "",
             follow_up_days |-> ToString(f.value)],
         rows |-> f.rows]

\* a template: the sequence of its literal parts [lit] and replacement
\* fields [key]
DEFAULT_TEMPLATE ==
    <<[lit |-> "Hi "], [key |-> "client_name"],
      [lit |-> ", just checking in from "], [key |-> "business_name"],
      [lit |-> "! It's been "], [key |-> "days_since_service"],
      [lit |-> " days since we last serviced you on "],
      [key |-> "last_service_date"],
      [lit |-> ". Let us know if you need anything."]>>

\* _DefaultDict.__getitem__: the value of the key, "" for a missing key
DefaultDict_get(context, key) ==
    IF key \in DOMAIN context THEN context[key] ELSE ""

\* str.format_map over a _DefaultDict
RECURSIVE format_map(_, _)
format_map(template, context) ==
    IF template = <<>> THEN ""
    ELSE (IF "lit" \in DOMAIN template[1]
          THEN template[1].lit
          ELSE DefaultDict_get(context, template[1].key))
         \o format_map(Tail(template), context)

\* WhatsAppFollowUp.build_message: [message, rows]
build_message(p, c, s, rows, localdate) ==
    LET l == OrLoad(s, rows)
        m == message_context(p, c, l.obj, l.rows, localdate)
    IN  [message |-> format_map(DEFAULT_TEMPLATE, m.context), rows |-> m.rows]

\* last service dates a profile may carry: none, 2024-01-01, 2024-05-02
ServiceDates == {NullDate, Ordinal(2024, 1, 1), Ordinal(2024, 5, 2)}
\* interval overrides a row may carry: none, 0, 1, 30
Overrides == {NullInt, 0, 1, 30}
GlobalDays == {7, DefaultFollowUpDays}
BusinessNames == {"", "Acme Motors"}
Errors == {"timeout", "rejected"}

\* the settings table: empty, or holding the singleton row
SettingsTables ==
    {{}} \cup {{[singleton_id |-> 1, global_follow_up_days |-> g,
                 business_name |-> b]} : g \in GlobalDays, b \in BusinessNames}

\* the client of the profile, with or without contact details
Clients ==
    {[name |-> "Ann", email |-> "", phone |-> ""],
     [name |-> "Ann", email |-> "ann@example.com", phone |-> "+18765550100"]}

\* stored, active profiles on which nothing has been sent
Profiles ==
    [pk : {1}, is_active : {TRUE}, last_service_date : ServiceDates,
     follow_up_days_override : Overrides,
     next_follow_up_date : {NullDate, FirstDay + 7},
     last_sent_at : {NullTime}, last_error : {""}]

FollowUpCalled(op) == [NoFLast EXCEPT !.op = op, !.before = profile, !.localdate = today]

\* any stored profile, with any settings table
ScheduleInit ==
    /\ ProcIdle
    /\ invoice = NewInvoice(1, GENERAL)
    /\ storage = {}
    /\ drive = {}
    /\ last = NoLast
    /\ items = <<>>
    /\ money = NoMoney
    /\ FormatIdle
    /\ settings \in SettingsTables
    /\ client \in Clients
    /\ profile \in Profiles
    /\ today = FirstDay
    /\ flast = NoFLast
    /\ BatchIdle

\* a caller reads profile.follow_up_days()
ReadFollowUpDays ==
    /\ profile.pk # 0
    /\ \E f \in {follow_up_days(profile, NoSettings, settings)} :
        /\ settings' = f.rows
        /\ flast' = [FollowUpCalled("follow_up_days") EXCEPT !.result = f.value]
    /\ UNCHANGED <<docVars, moneyVars, fmtVars, client, profile, today, batchVars, procVars>>

\* a caller reads profile.compute_next_follow_up_date()
ComputeNextFollowUpDate ==
    /\ profile.pk # 0
    /\ \E c \in {compute_next_follow_up_date(profile, NoSettings, settings)} :
        /\ settings' = c.rows
        /\ flast' = [FollowUpCalled("compute_next_follow_up_date") EXCEPT
                        !.result = c.value]
    /\ UNCHANGED <<docVars, moneyVars, fmtVars, client, profile, today, batchVars, procVars>>

\* a caller refreshes the schedule of the profile
RefreshSchedule ==
    /\ profile.pk # 0
    /\ \E r \in {refresh_schedule(profile, NoSettings, settings)} :
        /\ profile' = r.profile
        /\ settings' = r.rows
        /\ flast' = FollowUpCalled("refresh_schedule")
    /\ UNCHANGED <<docVars, moneyVars, fmtVars, client, today, batchVars, procVars>>

\* a message to the client was sent today
RegisterSuccess ==
    /\ profile.pk # 0
    /\ \E r \in {register_success(profile, NoSettings, settings, today, today)} :
        /\ profile' = r.profile
        /\ settings' = r.rows
        /\ flast' = FollowUpCalled("register_success")
    /\ UNCHANGED <<docVars, moneyVars, fmtVars, client, today, batchVars, procVars>>

\* sending a message to the client failed
RegisterFailure ==
    /\ profile.pk # 0
    /\ \E error \in Errors :
        /\ profile' = register_failure(profile, error)
        /\ flast' = [FollowUpCalled("register_failure") EXCEPT !.error = error]
    /\ UNCHANGED <<docVars, moneyVars, fmtVars, settings, client, today, batchVars, procVars>>

\* the outreach text of the profile is built
BuildMessage ==
    /\ profile.pk # 0
    /\ \E b \in {build_message(profile, client, NoSettings, settings, today)} :
        /\ settings' = b.rows
        /\ flast' = [FollowUpCalled("build_message") EXCEPT
                        !.message = b.message,
                        !.context = message_context(profile, client, NoSettings,
                                                    settings, today).context]
    /\ UNCHANGED <<docVars, moneyVars, fmtVars, client, profile, today, batchVars, procVars>>

\* a day passes
Tick ==
    /\ today < FirstDay + MaxDays
    /\ today' = today + 1
    /\ UNCHANGED <<docVars, moneyVars, fmtVars, settings, client, profile, flast,
                   batchVars, procVars>>

ScheduleNext ==
    \/ ReadFollowUpDays
    \/ ComputeNextFollowUpDate
    \/ RefreshSchedule
    \/ RegisterSuccess
    \/ RegisterFailure
    \/ BuildMessage
    \/ Tick

SpecSchedule == ScheduleInit /\ [][ScheduleNext]_vars

\* the forms accepting an override of 0
ValidOverride_allows_zero(override) == override = NullInt \/ override >= 0

\* WhatsAppEnrollmentForm and WhatsAppFollowUpForm: an override, when given,
\* is at least 1
ValidOverride(override) == override = NullInt \/ override >= 1

\* the overrides a form can be submitted with: left empty, negative, 0 or
\* positive
SubmittedOverrides == Overrides \cup {-2}

\* a form found invalid: the error is shown and nothing is saved
FormRejected(op, override) ==
    [FollowUpCalled(op) EXCEPT !.error = "ValidationError",
                               !.submitted = override]

\* no profile yet, with any settings table
FollowUpInit ==
    /\ ProcIdle
    /\ invoice = NewInvoice(1, GENERAL)
    /\ storage = {}
    /\ drive = {}
    /\ last = NoLast
    /\ items = <<>>
    /\ money = NoMoney
    /\ FormatIdle
    /\ settings \in SettingsTables
    /\ client \in Clients
    /\ profile = NoProfile
    /\ today = FirstDay
    /\ flast = NoFLast
    /\ BatchIdle

\* the client is enrolled through WhatsAppEnrollmentForm: the profile is
\* created and its schedule computed
Enroll ==
    /\ profile.pk = 0
    /\ \E last_service_date \in ServiceDates, override \in SubmittedOverrides :
        IF ValidOverride(override)
        THEN \E r \in {refresh_schedule(
                        [NoProfile EXCEPT !.pk = 1,
                            !.last_service_date = last_service_date,
                            !.follow_up_days_override = override],
                        NoSettings, settings)} :
                /\ profile' = r.profile
                /\ settings' = r.rows
                /\ flast' = FollowUpCalled("enroll")
        ELSE /\ flast' = FormRejected("enroll", override)
             /\ UNCHANGED <<profile, settings>>
    /\ UNCHANGED <<docVars, moneyVars, fmtVars, client, today, batchVars, procVars>>

\* the profile is edited through WhatsAppFollowUpForm and its schedule is
\* refreshed
EditProfile ==
    /\ profile.pk # 0
    /\ \E is_active \in BOOLEAN, last_service_date \in ServiceDates,
          override \in SubmittedOverrides :
        IF ValidOverride(override)
        THEN \E r \in {refresh_schedule(
                        [profile EXCEPT !.is_active = is_active,
                            !.last_service_date = last_service_date,
                            !.follow_up_days_override = override],
                        NoSettings, settings)} :
                /\ profile' = r.profile
                /\ settings' = r.rows
                /\ flast' = FollowUpCalled("edit_profile")
        ELSE /\ flast' = FormRejected("edit_profile", override)
             /\ UNCHANGED <<profile, settings>>
    /\ UNCHANGED <<docVars, moneyVars, fmtVars, client, today, batchVars, procVars>>

FollowUpNext ==
    \/ Enroll
    \/ EditProfile
    \/ RegisterSuccess
    \/ RegisterFailure
    \/ Tick

SpecFollowUp == FollowUpInit /\ [][FollowUpNext]_vars

-----------------------------------------------------------------------------
(* WhatsAppSettings: load() step by step, and the settings form *)

\* QuerySet.get(singleton_id=1) inside get_or_create: <<>> when the row does
\* not exist, <<row>> otherwise
get_settings(rows) ==
    IF \E r \in rows : r.singleton_id = 1
    THEN <<CHOOSE r \in rows : r.singleton_id = 1>>
    ELSE <<>>

\* the insert putting the defaults in place of a row that exists already
create_settings_replaces(rows) ==
    [raised |-> "",
     rows |-> {r \in rows : r.singleton_id # DefaultSettings.singleton_id}
                \cup {DefaultSettings}]

\* QuerySet.create(singleton_id=1, global_follow_up_days=90) inside
\* get_or_create: the primary key admits one row per singleton_id
create_settings(rows) ==
    IF \E r \in rows : r.singleton_id = DefaultSettings.singleton_id
    THEN [raised |-> "IntegrityError", rows |-> rows]
    ELSE [raised |-> "", rows |-> rows \cup {DefaultSettings}]

\* numbers the settings form may be given for global_follow_up_days
FormGlobalDays == {-2, 0, 1, DefaultFollowUpDays}

\* WhatsAppSettingsForm.is_valid: global_follow_up_days is the form field of
\* a PositiveIntegerField, an integer that is not negative
WhatsAppSettingsForm_is_valid(global_follow_up_days) ==
    global_follow_up_days >= 0

\* the settings are saved through WhatsAppSettingsForm over the loaded row:
\* [raised, rows]
WhatsAppSettingsForm_save(rows, global_follow_up_days, business_name) ==
    IF ~WhatsAppSettingsForm_is_valid(global_follow_up_days)
    THEN [raised |-> "ValidationError", rows |-> rows]
    ELSE LET l == load(rows)
         IN  [raised |-> "",
              rows |-> (l.rows \ {l.obj})
                        \cup {[l.obj EXCEPT
                                !.global_follow_up_days = global_follow_up_days,
                                !.business_name = business_name]}]

\* an empty settings table, nobody inside load()
SettingsInit ==
    /\ ProcIdle
    /\ invoice = NewInvoice(1, GENERAL)
    /\ storage = {}
    /\ drive = {}
    /\ last = NoLast
    /\ items = <<>>
    /\ money = NoMoney
    /\ FormatIdle
    /\ FollowUpIdle
    /\ BatchIdle

\* process p enters load(): the get of get_or_create
LoadGet(p) ==
    /\ loaders[p].pc = "idle"
    /\ \E g \in {get_settings(settings)} :
        loaders' = [loaders EXCEPT ![p] =
                        IF g # <<>>
                        THEN [IdleLoader EXCEPT !.pc = "done", !.obj = g[1]]
                        ELSE [IdleLoader EXCEPT !.pc = "create"]]
    /\ UNCHANGED <<docVars, moneyVars, fmtVars, fuVars, batchVars, syncers>>

\* process p found no row: the create of get_or_create
LoadCreate(p) ==
    /\ loaders[p].pc = "create"
    /\ \E c \in {create_settings(settings)} :
        /\ settings' = c.rows
        /\ loaders' = [loaders EXCEPT ![p] =
                        IF c.raised = ""
                        THEN [@ EXCEPT !.pc = "done", !.obj = DefaultSettings,
                                       !.created = TRUE]
                        ELSE [@ EXCEPT !.pc = "reget", !.retried = TRUE]]
    /\ UNCHANGED <<docVars, moneyVars, fmtVars, client, profile, today, flast,
                   batchVars, syncers>>

\* the create of process p met the row of another process: the second get of
\* get_or_create
LoadReget(p) ==
    /\ loaders[p].pc = "reget"
    /\ \E g \in {get_settings(settings)} :
        loaders' = [loaders EXCEPT ![p] =
                        IF g # <<>>
                        THEN [@ EXCEPT !.pc = "done", !.obj = g[1]]
                        ELSE [@ EXCEPT !.pc = "raised"]]
    /\ UNCHANGED <<docVars, moneyVars, fmtVars, fuVars, batchVars, syncers>>

\* load() returns in process p
LoadReturn(p) ==
    /\ loaders[p].pc = "done"
    /\ loaders' = [loaders EXCEPT ![p] = IdleLoader]
    /\ UNCHANGED <<docVars, moneyVars, fmtVars, fuVars, batchVars, syncers>>

\* the settings form is submitted
SaveSettings ==
    /\ \E global_follow_up_days \in FormGlobalDays, business_name \in BusinessNames :
        \E r \in {WhatsAppSettingsForm_save(settings, global_follow_up_days,
                                            business_name)} :
            /\ settings' = r.rows
            /\ flast' = [FollowUpCalled("save_settings") EXCEPT
                            !.error = r.raised,
                            !.submitted = global_follow_up_days]
    /\ UNCHANGED <<docVars, moneyVars, fmtVars, client, profile, today,
                   batchVars, procVars>>

SettingsNext ==
    \/ \E p \in Procs : LoadGet(p)
    \/ \E p \in Procs : LoadCreate(p)
    \/ \E p \in Procs : LoadReget(p)
    \/ \E p \in Procs : LoadReturn(p)
    \/ SaveSettings

SpecSettings == SettingsInit /\ [][SettingsNext]_vars

\* an empty settings table and a client that is not enrolled
GlobalInit ==
    /\ ProcIdle
    /\ invoice = NewInvoice(1, GENERAL)
    /\ storage = {}
    /\ drive = {}
    /\ last = NoLast
    /\ items = <<>>
    /\ money = NoMoney
    /\ FormatIdle
    /\ settings = {}
    /\ client \in Clients
    /\ profile = NoProfile
    /\ today = FirstDay
    /\ flast = NoFLast
    /\ BatchIdle

\* the settings are edited while a client is enrolled and messages are sent
GlobalNext ==
    \/ SaveSettings
    \/ Enroll
    \/ RegisterSuccess
    \/ Tick

SpecGlobal == GlobalInit /\ [][GlobalNext]_vars

-----------------------------------------------------------------------------
(* Concurrent syncs of one invoice *)

\* the row written by save(update_fields=[drive_file_id, drive_web_view_link,
\* drive_download_link, drive_synced_at, pdf_file]): these columns come from
\* the instance, the others stay as they are in the row
save_drive_fields(row, inst) ==
    [row EXCEPT !.drive_file_id = inst.drive_file_id,
                !.drive_web_view_link = inst.drive_web_view_link,
                !.drive_download_link = inst.drive_download_link,
                !.drive_synced_at = inst.drive_synced_at,
                !.pdf_file = inst.pdf_file]

\* an invoice of either type that is not on Drive, with or without a stored
\* document; no sync is in progress
RaceInit ==
    /\ loaders = [p \in Procs |-> IdleLoader]
    /\ syncers = [p \in Procs |-> IdleSyncer]
    /\ \E t \in Types, stored \in BOOLEAN :
        \E d \in {IF stored
                  THEN _store_pdf([invoice |-> NewInvoice(1, t), storage |-> {}],
                                  pdf_filename(NewInvoice(1, t)), 1, TRUE)
                  ELSE [invoice |-> NewInvoice(1, t), storage |-> {}]} :
            /\ invoice = d.invoice
            /\ storage = d.storage
    /\ drive = {}
    /\ last = NoLast
    /\ items = <<>>
    /\ money = NoMoney
    /\ FormatIdle
    /\ FollowUpIdle
    /\ BatchIdle

\* process p starts a sync: it loads the invoice row into an instance
SyncLoad(p) ==
    /\ syncers[p].pc = "idle"
    /\ syncers' = [syncers EXCEPT ![p] =
                    [IdleSyncer EXCEPT !.pc = "loaded", !.inv = invoice]]
    /\ UNCHANGED <<docVars, moneyVars, fmtVars, fuVars, batchVars, loaders>>

\* process p renders the document without storing it and uploads the bytes:
\* upload_invoice_pdf reads drive_file_id from the instance p loaded
SyncUpload(p) ==
    /\ syncers[p].pc = "loaded"
    /\ \E outcome \in RenderOutcomes, o \in UploadOutcomes :
        /\ UploadPossible(syncers[p].inv, drive, o)
        /\ \E g \in {generate_pdf_bytes([invoice |-> syncers[p].inv,
                                          storage |-> storage],
                                         FALSE, FALSE, outcome)} :
            IF g.raised # ""
            THEN /\ syncers' = [syncers EXCEPT ![p].pc = "failed",
                                               ![p].raised = g.raised]
                 /\ drive' = drive
            ELSE \E u \in {upload_invoice_pdf(syncers[p].inv, drive,
                                               pdf_filename(syncers[p].inv),
                                               g.content, o)} :
                    /\ drive' = u.drive
                    /\ syncers' = [syncers EXCEPT ![p] =
                            IF u.raised # ""
                            THEN [@ EXCEPT !.pc = "failed", !.raised = u.raised]
                            ELSE [@ EXCEPT !.pc = "uploaded",
                                           !.content = g.content,
                                           !.file = u.file]]
    /\ UNCHANGED <<invoice, storage, last, moneyVars, fmtVars, fuVars,
                   batchVars, loaders>>

\* process p records the file Drive answered with: mark_drive_file on the
\* instance p loaded, saved over the row
SyncMark(p) ==
    /\ syncers[p].pc = "uploaded"
    /\ \E m \in {mark_drive_file([invoice |-> syncers[p].inv, storage |-> storage],
                                  syncers[p].file.id,
                                  syncers[p].file.webViewLink,
                                  syncers[p].file.webContentLink, TRUE, Now)} :
        /\ invoice' = save_drive_fields(invoice, m.invoice)
        /\ storage' = m.storage
        /\ syncers' = [syncers EXCEPT ![p].pc = "done", ![p].inv = m.invoice]
    /\ UNCHANGED <<drive, last, moneyVars, fmtVars, fuVars, batchVars, loaders>>

RaceNext ==
    \E p \in Procs : SyncLoad(p) \/ SyncUpload(p) \/ SyncMark(p)

SpecRace == RaceInit /\ [][RaceNext]_vars

-----------------------------------------------------------------------------
(* Writes that fail: the stored row and the blobs *)

\* how the write that follows a blob deletion ends: it succeeds (""), the
\* storage backend fails to write the blob, or the database fails to save
\* the row
WriteOutcomes == {"", "OSError", "DatabaseError"}

WriteResult(row, st, raised) == [row |-> row, storage |-> st, raised |-> raised]

\* Invoice._store_pdf on an instance loaded from row: pdf_file.delete
\* (save=False) removes the blob and leaves the row as it is; pdf_file.save
\* writes the new blob and then saves the row, and either of the two writes
\* may fail.
_store_pdf_writes(row, st, filename, pdf_content, overwrite, fails) ==
    LET d0 == [invoice |-> row, storage |-> st]
        d1 == IF overwrite /\ Truthy(row.pdf_file) THEN FieldFile_delete(d0) ELSE d0
        d2 == FieldFile_save(d1, filename, pdf_content)
    IN  IF ~Truthy(d1.invoice.pdf_file) \/ overwrite
        THEN IF fails = "OSError" THEN WriteResult(row, d1.storage, fails)
             ELSE IF fails = "DatabaseError" THEN WriteResult(row, d2.storage, fails)
             ELSE WriteResult(d2.invoice, d2.storage, "")
        ELSE WriteResult(row, st, "")

\* Invoice.mark_drive_file on an instance loaded from row: the blob is
\* deleted before self.save(update_fields=...), which may fail.
mark_drive_file_writes(row, st, file_id, web_view_link, download_link, clear_local, now, fails) ==
    LET m == mark_drive_file([invoice |-> row, storage |-> st], file_id,
                             web_view_link, download_link, clear_local, now)
    IN  IF fails = "DatabaseError"
        THEN WriteResult(row, m.storage, fails)
        ELSE WriteResult(save_drive_fields(row, m.invoice), m.storage, "")

\* a freshly created invoice of either type, nothing stored
WritesInit ==
    /\ ProcIdle
    /\ invoice \in {NewInvoice(1, t) : t \in Types}
    /\ storage = {}
    /\ drive = {}
    /\ last = NoLast
    /\ items = <<>>
    /\ money = NoMoney
    /\ FormatIdle
    /\ FollowUpIdle
    /\ BatchIdle

\* the document is rendered and stored under the invoice's filename
StorePdf ==
    \E pdf_content \in Contents, overwrite \in BOOLEAN, fails \in WriteOutcomes :
        \E r \in {_store_pdf_writes(invoice, storage, pdf_filename(invoice),
                                    pdf_content, overwrite, fails)} :
            /\ Cardinality(r.storage) <= MaxBlobs
            /\ invoice' = r.row
            /\ storage' = r.storage
            /\ last' = [Called("_store_pdf") EXCEPT
                            !.raised = r.raised, !.overwrite = overwrite,
                            !.content = pdf_content]
            /\ UNCHANGED <<drive, items, money, fmtVars, fuVars, batchVars, procVars>>

\* a caller records a Drive file for the invoice
MarkDriveFileWrite ==
    \E file_id \in DriveIds, clear_local \in BOOLEAN,
       fails \in {"", "DatabaseError"} :
        \E r \in {mark_drive_file_writes(invoice, storage, file_id, PyNone,
                                         PyNone, clear_local, Now, fails)} :
            /\ invoice' = r.row
            /\ storage' = r.storage
            /\ last' = [Called("mark_drive_file") EXCEPT
                            !.raised = r.raised, !.clear_local = clear_local,
                            !.file_id = file_id, !.now = Now]
            /\ UNCHANGED <<drive, items, money, fmtVars, fuVars, batchVars, procVars>>

WritesNext ==
    \/ StorePdf
    \/ MarkDriveFileWrite
    \/ EditInvoice

SpecWrites == WritesInit /\ [][WritesNext]_vars

-----------------------------------------------------------------------------
(* Properties *)

HasLocal(inv) == inv.pdf_file # ""
HasRemote(inv) == inv.drive_file_id # ""

DescriptorEmpty(inv) ==
    /\ inv.drive_file_id = ""
    /\ inv.drive_web_view_link = ""
    /\ inv.drive_download_link = ""
    /\ inv.drive_synced_at = NullTime

Descriptor(inv) ==
    <<inv.drive_file_id, inv.drive_web_view_link, inv.drive_download_link,
      inv.drive_synced_at>>

\* the link a descriptor stores for a link argument: the argument, or the
\* empty string when there is none
StoredLink(arg) == IF arg = PyNone THEN "" ELSE arg

\* C1: local and remote storage are mutually exclusive: the invoice never has
\* a local pdf_file and a non-empty drive_file_id at the same time (a
\* mark_drive_file told to keep the local copy, clear_local = False, is left
\* out of the statement).
C1_LocalRemoteExclusive ==
    ~(last.op = "mark_drive_file" /\ ~last.clear_local)
        => ~(HasLocal(invoice) /\ HasRemote(invoice))

\* C2: after a successful mark_drive_file with its default arguments (called
\* directly or by a sync) the invoice has no local pdf_file and the descriptor
\* holds the new file id, both links and a non-null sync timestamp.
C2_SyncClearsLocal ==
    (last.op \in {"mark_drive_file", "sync_invoice"} /\ last.raised = ""
        /\ last.clear_local)
    => /\ ~HasLocal(invoice)
       /\ invoice.drive_file_id = last.file_id
       /\ invoice.drive_file_id # ""
       /\ invoice.drive_web_view_link = StoredLink(last.web_view_link)
       /\ invoice.drive_download_link = StoredLink(last.download_link)
       /\ invoice.drive_synced_at # NullTime
       /\ invoice.drive_synced_at = last.now

C2_Witness ==
    /\ last.op = "mark_drive_file"
    /\ last.clear_local
    /\ last.had_local
    /\ last.had_remote
    /\ last.web_view_link # PyNone

\* C3: clear_drive_file empties the four descriptor fields, leaves pdf_file
\* and the stored blobs exactly as they were, and makes no call to Drive (the
\* remote objects are untouched).
C3_ClearOnlyForgets ==
    [][last'.op = "clear_drive_file"
        => /\ DescriptorEmpty(invoice')
           /\ invoice'.pdf_file = invoice.pdf_file
           /\ storage' = storage
           /\ drive' = drive
           /\ last'.remote_calls = 0]_vars

C3_Witness ==
    /\ last.op = "clear_drive_file"
    /\ last.had_remote
    /\ last.had_local
    /\ HasLocal(invoice)
    /\ drive # {}

C5_StoreNoOverwriteIdempotent ==
    [][(last'.op = "generate_pdf_bytes" /\ last'.store_local
            /\ ~last'.overwrite /\ last'.raised = "")
        => IF HasLocal(invoice)
           THEN invoice'.pdf_file = invoice.pdf_file /\ storage' = storage
           ELSE /\ HasLocal(invoice')
                /\ [name |-> invoice'.pdf_file, bytes |-> last'.content] \in storage']_vars

C5_Witness ==
    /\ last.op = "generate_pdf_bytes"
    /\ last.store_local
    /\ ~last.overwrite
    /\ last.raised = ""
    /\ last.stores = 1
    /\ last.had_local
    /\ \E b \in storage : b.name = invoice.pdf_file /\ b.bytes # last.content

\* C6: no orphaned blobs: the blob store holds at most one blob for the
\* invoice and every blob it holds is the one pdf_file references.
C6_NoOrphanedBlobs ==
    /\ Cardinality(storage) <= 1
    /\ \A b \in storage : b.name = invoice.pdf_file

C6_Witness ==
    /\ last.op \in {"generate_pdf_bytes", "regenerate_pdfs"}
    /\ last.overwrite
    /\ last.stores = 1
    /\ last.had_local
    /\ Cardinality(storage) = 1

\* C7: when the renderer is unavailable or fails, generate_pdf_bytes (and the
\* generate_general_pdf / generate_proforma_pdf it dispatches to) raises that
\* error, does not call _store_pdf, renders once, and leaves the invoice and
\* the blobs unchanged.
C7_RenderFailurePropagates ==
    [][(last'.op = "generate_pdf_bytes" /\ last'.render # "")
        => /\ last'.raised = last'.render
           /\ last'.stores = 0
           /\ last'.renders = 1
           /\ invoice' = invoice
           /\ storage' = storage]_vars

C7_Witness ==
    /\ last.op = "generate_pdf_bytes"
    /\ last.render # ""
    /\ last.store_local
    /\ last.overwrite
    /\ last.had_local
    /\ invoice.invoice_type = GENERAL

\* C8: over any sequence of syncs with no clear_drive_file in between, a
\* successful sync issues one request, an update of the object of a non-empty
\* drive_file_id and a create only when the id is empty; at most one remote
\* object is ever created for the invoice and drive_file_id, once set, never
\* changes.
C8_SyncUpdatesInPlace ==
    [][/\ (last'.op = "sync_invoice" /\ last'.raised = "")
            => /\ last'.remote_calls = 1
               /\ IF HasRemote(invoice)
                  THEN last'.creates = 0 /\ drive' = drive
                  ELSE /\ last'.creates = 1
                       /\ invoice'.drive_file_id \notin drive
                       /\ drive' = drive \cup {invoice'.drive_file_id}
       /\ Cardinality(drive') <= 1
       /\ HasRemote(invoice) => invoice'.drive_file_id = invoice.drive_file_id]_vars

C8_Witness ==
    /\ last.op = "sync_invoice"
    /\ last.raised = ""
    /\ last.had_remote
    /\ last.creates = 0
    /\ drive = {invoice.drive_file_id}

DocState(inv) ==
    IF HasLocal(inv) /\ HasRemote(inv) THEN "LocalAndRemote"
    ELSE IF HasLocal(inv) THEN "LocalOnly"
    ELSE IF HasRemote(inv) THEN "RemoteSynced"
    ELSE "NoDocument"

\* C9: the document state changes only along NoDocument->LocalOnly (store),
\* LocalOnly->RemoteSynced (sync), RemoteSynced->LocalOnly (render and store
\* locally, ending with an empty descriptor) and RemoteSynced/LocalOnly->
\* NoDocument (clear), and is always one of these three states.
C9_OnlySpecifiedEdges ==
    [][LET a == DocState(invoice)
           b == DocState(invoice')
           stored == last'.op \in {"generate_pdf_bytes", "regenerate_pdfs"}
                        /\ last'.stores = 1
           synced == last'.op \in {"sync_invoice", "mark_drive_file"}
           cleared == last'.op = "clear_drive_file"
       IN  /\ b \in {"NoDocument", "LocalOnly", "RemoteSynced"}
           /\ a # b =>
                \/ a = "NoDocument" /\ b = "LocalOnly" /\ stored
                \/ a = "LocalOnly" /\ b = "RemoteSynced" /\ synced
                \/ a = "RemoteSynced" /\ b = "LocalOnly" /\ stored
                      /\ DescriptorEmpty(invoice')
                \/ a \in {"RemoteSynced", "LocalOnly"} /\ b = "NoDocument"
                      /\ cleared]_vars

\* the relation "r is v/den rounded half-up to 2 decimal places": r is a
\* whole number of cents within half a cent of v/den, the upper one on a tie
IsRound2(v, den, r) ==
    /\ r % Cent = 0
    /\ 2 * (r * den - v) <= Cent * den
    /\ 2 * (v - r * den) < Cent * den

\* C10: parts_subtotal and labour_subtotal are the half-up roundings of the
\* sums of parts_cost and labour_cost, gct is the half-up rounding of 0.15
\* times the rounded parts subtotal, total is exactly their sum; the empty
\* list gives 0.00 four times and labour 10.005, parts 20.004 gives 10.01,
\* 20.00, 3.00 and 33.01.
C10_Totals ==
    money.computed
    => /\ IsRound2(SumRows(items, "parts_cost"), 1, money.parts_subtotal)
       /\ IsRound2(SumRows(items, "labour_cost"), 1, money.labour_subtotal)
       /\ IsRound2(money.parts_subtotal * 15, 100, money.gct)
       /\ money.total = money.parts_subtotal + money.labour_subtotal + money.gct
       /\ items = <<>>
            => money = [computed |-> TRUE, parts_subtotal |-> 0,
                        labour_subtotal |-> 0, gct |-> 0, total |-> 0]
       /\ items = <<[labour_cost |-> 1000500, parts_cost |-> 2000400]>>
            => money = [computed |-> TRUE, parts_subtotal |-> 2000000,
                        labour_subtotal |-> 1001000, gct |-> 300000,
                        total |-> 3301000]

C10_Witness ==
    /\ money.computed
    /\ items = <<[labour_cost |-> 1000500, parts_cost |-> 2000400]>>
    /\ money.total = 3301000

\* C11: the formatted total of a PROFORMA invoice whose price is missing is a
\* non-empty placeholder, whatever the currency: proforma_total_formatted
\* never returns the empty string for it.
C11_MissingPriceFormatsToPlaceholder ==
    (/\ display.read
     /\ proforma.invoice_type = PROFORMA
     /\ proforma.proforma_price = NoPrice)
        => display.proforma_total_formatted # ""

\* C12: whenever generate_pdf_bytes or the batch sweep writes the local copy,
\* the name it is stored under is invoices/ + pdf_filename(): "invoice-{id}-
\* general.pdf" for a GENERAL invoice and "invoice-{id}-proforma.pdf"
\* otherwise, whatever the document state was and whatever was rendered.
C12_FilenameFromIdAndType ==
    [][(/\ last'.op \in {"generate_pdf_bytes", "regenerate_pdfs"}
        /\ last'.stores = 1
        /\ (last'.overwrite \/ ~last'.had_local))
            => /\ invoice'.pdf_file =
                    "invoices/invoice-" \o ToString(invoice'.pk)
                        \o (IF invoice'.invoice_type = GENERAL
                            THEN "-general.pdf" ELSE "-proforma.pdf")
               /\ invoice'.pdf_file = upload_to(pdf_filename(invoice'))
               /\ [name |-> invoice'.pdf_file, bytes |-> last'.content] \in storage'
               /\ invoice'.pk = invoice.pk
               /\ invoice'.invoice_type = invoice.invoice_type]_vars

\* the sweep rewrites the document of the synced PROFORMA invoice 2
C12_Witness ==
    /\ last.op = "regenerate_pdfs"
    /\ last.stores = 1
    /\ last.had_local
    /\ last.had_remote
    /\ invoice.pk = 2
    /\ invoice.invoice_type = PROFORMA
    /\ invoice.pdf_file = "invoices/invoice-2-proforma.pdf"

\* the settings object a method of the profile works with
TheSettings == load(settings).obj

\* the interval in force for a profile: its override when set and at least 1,
\* the global interval otherwise
EffectiveInterval(p) ==
    IF p.follow_up_days_override # NullInt /\ p.follow_up_days_override >= 1
    THEN p.follow_up_days_override
    ELSE TheSettings.global_follow_up_days

\* the date the schedule of a profile is due by its last service
DueByService(p) ==
    IF p.last_service_date = NullDate THEN NullDate
    ELSE p.last_service_date + EffectiveInterval(p)

\* C13: follow_up_days returns follow_up_days_override when it is set and at
\* least 1, and the settings' global_follow_up_days when the override is null
\* or 0.
C13_EffectiveInterval ==
    flast.op = "follow_up_days" =>
        flast.result =
            IF profile.follow_up_days_override # NullInt
               /\ profile.follow_up_days_override >= 1
            THEN profile.follow_up_days_override
            ELSE TheSettings.global_follow_up_days

\* override 30 with a global interval of 90 gives 30
C13_Witness ==
    /\ flast.op = "follow_up_days"
    /\ profile.follow_up_days_override = 30
    /\ TheSettings.global_follow_up_days = 90
    /\ flast.result = 30

\* C14: compute_next_follow_up_date returns None when last_service_date is
\* unset and last_service_date + the effective interval otherwise (2024-01-01
\* with the default of 90 days gives 2024-03-31); refresh_schedule stores that
\* value in next_follow_up_date and changes no other field of the profile.
C14_ComputeAndRefresh ==
    /\ flast.op = "compute_next_follow_up_date" =>
        /\ flast.result = DueByService(profile)
        /\ (/\ profile.last_service_date = Ordinal(2024, 1, 1)
            /\ profile.follow_up_days_override = NullInt
            /\ TheSettings.global_follow_up_days = 90)
                => flast.result = Ordinal(2024, 3, 31)
    /\ flast.op = "refresh_schedule" =>
        profile = [flast.before EXCEPT
                        !.next_follow_up_date = DueByService(flast.before)]

\* the schedule of a profile last serviced on 2024-01-01 is refreshed with the
\* default interval
C14_Witness ==
    /\ flast.op = "refresh_schedule"
    /\ profile.last_service_date = Ordinal(2024, 1, 1)
    /\ profile.follow_up_days_override = NullInt
    /\ TheSettings.global_follow_up_days = 90
    /\ flast.before.next_follow_up_date # profile.next_follow_up_date
    /\ profile.next_follow_up_date = Ordinal(2024, 3, 31)

\* C15: register_success on day D with effective interval I sets
\* next_follow_up_date to D + I whatever last_service_date is, last_sent_at to
\* the current time and last_error to "", and changes nothing else (2024-06-01
\* with an interval of 30 gives 2024-07-01).
C15_SuccessReschedulesFromToday ==
    flast.op = "register_success" =>
        /\ profile = [flast.before EXCEPT
                        !.next_follow_up_date =
                            flast.localdate + EffectiveInterval(flast.before),
                        !.last_sent_at = flast.localdate,
                        !.last_error = ""]
        /\ (flast.localdate = Ordinal(2024, 6, 1) /\ EffectiveInterval(profile) = 30)
                => profile.next_follow_up_date = Ordinal(2024, 7, 1)

\* a send on 2024-06-01 succeeds after a failed one, for a profile with an
\* override of 30 last serviced on 2024-01-01
C15_Witness ==
    /\ flast.op = "register_success"
    /\ flast.localdate = Ordinal(2024, 6, 1)
    /\ flast.before.last_error = "timeout"
    /\ profile.last_service_date = Ordinal(2024, 1, 1)
    /\ profile.follow_up_days_override = 30
    /\ profile.next_follow_up_date = Ordinal(2024, 7, 1)
    /\ profile.last_sent_at = Ordinal(2024, 6, 1)
    /\ profile.last_error = ""

\* C16: register_failure changes last_error and nothing else, so that any
\* number of consecutive calls leave next_follow_up_date, last_sent_at,
\* last_service_date, follow_up_days_override and is_active as they were.
C16_FailureOnlyRecordsError ==
    [][flast'.op = "register_failure" =>
        /\ profile' = [profile EXCEPT !.last_error = flast'.error]
        /\ profile'.next_follow_up_date = profile.next_follow_up_date
        /\ profile'.last_sent_at = profile.last_sent_at
        /\ profile'.last_service_date = profile.last_service_date
        /\ profile'.follow_up_days_override = profile.follow_up_days_override
        /\ profile'.is_active = profile.is_active]_vars

\* a second failure in a row, on a profile that has a schedule and a send
C16_Witness ==
    /\ flast.op = "register_failure"
    /\ flast.before.last_error = "timeout"
    /\ profile.last_error = "rejected"
    /\ profile.next_follow_up_date # NullDate
    /\ profile.last_sent_at # NullTime
    /\ profile = [flast.before EXCEPT !.last_error = "rejected"]

\* C17: in every state reachable by enrollment, edits followed by
\* refresh_schedule, register_success and register_failure, the cached
\* next_follow_up_date equals compute_next_follow_up_date().
C17_NextAlwaysRecomputable ==
    profile.pk # 0 =>
        profile.next_follow_up_date =
            compute_next_follow_up_date(profile, NoSettings, settings).value

\* C17, amended: next_follow_up_date equals compute_next_follow_up_date() as
\* long as no send has succeeded; once one has, it is either that value or
\* the date register_success stored, the day of the send + the effective
\* interval, which stays until the next refresh_schedule.
C17_RecomputableUntilSent ==
    profile.pk # 0 =>
        /\ profile.last_sent_at = NullTime =>
                profile.next_follow_up_date = DueByService(profile)
        /\ profile.last_sent_at # NullTime =>
                profile.next_follow_up_date
                    \in {DueByService(profile),
                         profile.last_sent_at + EffectiveInterval(profile)}

\* a send succeeded for a profile last serviced on 2024-01-01: the schedule
\* counts from the day of the send
C17_Witness ==
    /\ flast.op = "register_success"
    /\ profile.last_service_date = Ordinal(2024, 1, 1)
    /\ profile.next_follow_up_date # DueByService(profile)
    /\ profile.next_follow_up_date = profile.last_sent_at + EffectiveInterval(profile)

\* the values build_message had no source for come out empty
BlankWhenUnset ==
    /\ flast.before.last_service_date = NullDate =>
            /\ flast.context.last_service_date = ""
            /\ flast.context.days_since_service = ""
    /\ flast.before.next_follow_up_date = NullDate =>
            flast.context.next_follow_up_date = ""
    /\ flast.context.client_name = client.name
    /\ flast.context.client_email = client.email
    /\ flast.context.client_phone = client.phone
    /\ flast.context.follow_up_days = ToString(EffectiveInterval(flast.before))
    /\ format_map(<<[key |-> "unknown_name"]>>, flast.context) = ""
    /\ format_map(<<[lit |-> "Due "], [key |-> "next_follow_up_date"],
                    [lit |-> " ("], [key |-> "coupon"], [lit |-> ")"]>>,
                  flast.context)
            = "Due " \o flast.context.next_follow_up_date \o " ()"

\* the text of the default template over a context
TemplateText(context) ==
    "Hi " \o context.client_name \o ", just checking in from "
        \o context.business_name \o "! It's been " \o context.days_since_service
        \o " days since we last serviced you on " \o context.last_service_date
        \o ". Let us know if you need anything."

\* C20: build_message returns a string for every profile state, and every
\* placeholder whose value is unavailable (an unset date, an empty business
\* name, an unknown name) is substituted by the empty string.
C20_UnavailableIsEmpty ==
    flast.op = "build_message" =>
        /\ BlankWhenUnset
        /\ TheSettings.business_name = "" => flast.context.business_name = ""
        /\ flast.message = TemplateText(flast.context)

\* C20, amended: build_message returns a string for every profile state; an
\* unset last_service_date or next_follow_up_date and an unknown name are
\* substituted by the empty string, and an empty business name by "our team".
C20_UnavailableIsEmptyOrOurTeam ==
    flast.op = "build_message" =>
        /\ BlankWhenUnset
        /\ flast.context.business_name =
                IF TheSettings.business_name = "" THEN "our team"
                ELSE TheSettings.business_name
        /\ flast.message = TemplateText(flast.context)
        /\ profile = flast.before

\* the message of a profile without dates, for a client without contact
\* details and settings without a business name
C20_Witness ==
    /\ flast.op = "build_message"
    /\ profile.last_service_date = NullDate
    /\ profile.next_follow_up_date = NullDate
    /\ TheSettings.business_name = ""
    /\ client.email = ""
    /\ client.phone = ""
    /\ flast.message =
        "Hi Ann, just checking in from our team! It's been  days since we last serviced you on . Let us know if you need anything."

\* the rows of a run whose generation raised
FailedRows(outcomes) == {i \in DOMAIN outcomes : outcomes[i].raised # ""}

C19_DryRunWritesNothing ==
    [][(report'.ran /\ report'.dry_run) =>
        /\ report'.would = Len(table)
        /\ report'.processed = Len(table)
        /\ report'.regenerated = Len(table)
        /\ report'.renders = 0
        /\ report'.stores = 0
        /\ table' = table
        /\ storage' = storage]_vars

\* a dry run over two invoices: the first has a local copy, the second is on
\* Drive
C19_Witness ==
    /\ report.ran
    /\ report.dry_run
    /\ Len(table) = 2
    /\ report.would = 2
    /\ report.processed = 2
    /\ report.regenerated = 2
    /\ table[1].pdf_file # ""
    /\ table[2].drive_file_id # ""
    /\ storage # {}

\* C21: however calls of WhatsAppSettings.load() follow or interleave, the
\* table never holds more than one settings record and holds exactly one,
\* with singleton_id 1, once a call has returned; a step of load() creates the
\* record with global_follow_up_days = 90 only when the table is empty, and
\* never changes a record that exists.
C21_SettingsSingleton ==
    [][/\ Cardinality(settings') <= 1
       /\ \A p \in Procs :
            loaders'[p].pc = "done" =>
                /\ Cardinality(settings') = 1
                /\ \A r \in settings' : r.singleton_id = 1
       /\ \A p \in Procs : loaders'[p].pc # "raised"
       /\ loaders' # loaders =>
            /\ settings \subseteq settings'
            /\ settings' # settings =>
                /\ settings = {}
                /\ settings' = {[singleton_id |-> 1,
                                 global_follow_up_days |-> 90,
                                 business_name |-> ""]}
            /\ \A p \in Procs :
                (loaders'[p].pc = "done" /\ loaders[p].pc # "done")
                    => loaders'[p].obj \in settings']_vars

\* two calls raced on the empty table: the first created the record, the
\* second met it and read it back, as the form had saved it in between
C21_Witness ==
    /\ loaders[1].pc = "done"
    /\ loaders[2].pc = "done"
    /\ loaders[1].created
    /\ loaders[2].retried
    /\ ~loaders[2].created
    /\ loaders[2].obj.global_follow_up_days = 1
    /\ settings = {loaders[2].obj}

\* C22: the global interval is at least 1 in every reachable state: the
\* settings form rejects global_follow_up_days < 1, so the effective interval
\* of a profile is at least 1 and register_success schedules
\* next_follow_up_date strictly after the day of the send.
C22_GlobalIntervalAtLeastOne ==
    /\ \A r \in settings : r.global_follow_up_days >= 1
    /\ (flast.op = "save_settings" /\ flast.submitted < 1)
            => flast.error = "ValidationError"
    /\ profile.pk # 0 => follow_up_days(profile, NoSettings, settings).value >= 1
    /\ flast.op = "register_success"
            => profile.next_follow_up_date > flast.localdate

\* C23: an enrollment or a profile edit submitted with an override below 1
\* yields a validation error and writes nothing, so a profile created and
\* edited through the two forms has no override or an override of at least 1.
C23_OverrideAtLeastOne ==
    [][/\ profile'.pk # 0 =>
            \/ profile'.follow_up_days_override = NullInt
            \/ profile'.follow_up_days_override >= 1
       /\ (/\ flast'.op \in {"enroll", "edit_profile"}
           /\ flast'.submitted # NullInt
           /\ flast'.submitted < 1) =>
            /\ flast'.error = "ValidationError"
            /\ profile' = profile
            /\ settings' = settings
       /\ (flast'.op \in {"enroll", "edit_profile"} /\ flast'.error = "") =>
            /\ profile'.pk # 0
            /\ flast'.submitted = NullInt]_vars

\* an edit submitting an override of 0 was rejected and the profile kept its
\* override of 30
C23_Witness ==
    /\ flast.op = "edit_profile"
    /\ flast.submitted = 0
    /\ flast.error = "ValidationError"
    /\ profile = flast.before
    /\ profile.follow_up_days_override = 30

\* C24: once register_success has run on day D, next_follow_up_date stays at
\* D + 1 or later until the next register_success while last_service_date
\* and the interval are not edited; a refresh_schedule after the success
\* leaves next_follow_up_date as it was.
C24_ScheduleNeverMovesBack ==
    [][(profile.last_sent_at # NullTime /\ flast'.op # "register_success") =>
        /\ profile'.next_follow_up_date >= profile.last_sent_at + 1
        /\ flast'.op = "refresh_schedule" =>
                profile'.next_follow_up_date = profile.next_follow_up_date]_vars

\* the syncs that were started have all ended
SyncsEnded == \A p \in Procs : syncers[p].pc \in {"done", "failed"}

\* C25: when the interleaved syncs of an invoice that started with no remote
\* id have ended, at most one remote object was created and the invoice
\* points at every remote object that exists, so none is left unreferenced.
C25_OneRemoteObjectPerInvoice ==
    SyncsEnded =>
        /\ Cardinality(drive) <= 1
        /\ drive \subseteq {invoice.drive_file_id}

\* C26: in every reachable state, the state left by a failed write after a
\* blob deletion included, the pdf_file of the stored row names a blob that
\* exists.
C26_NoDanglingLocalReference ==
    Truthy(invoice.pdf_file) => invoice.pdf_file \in StoredNames(storage)

====
